---- MODULE Spec2Model ----
(***************************************************************************)
(* Model of rhythmic_dictation.py: gen_rhythm (randomised fill of one      *)
(* measure with single-element backtracking), sixteenths_to_rests,         *)
(* sixteenths_to_lilypond, validate_args' note-value check and the         *)
(* generation / rest-selection / rendering part of practice_round.         *)
(* Every random.choice is a nondeterministic choice.                       *)
(***************************************************************************)
EXTENDS Integers, Sequences, FiniteSets, TLC

VARIABLES
    bpmeasure,          \* args.bpmeasure: beats per measure
    measures,           \* args.measures
    note_values,        \* args.note_values (the values random.choice can draw)
    num_rests,          \* args.num_rests
    pc,                 \* position in gen_rhythm / practice_round
    err,                \* exception that ended the run, "none" if none
    notes,              \* gen_rhythm: notes
    current_sixteenths, \* gen_rhythm: current_sixteenths
    iter_counter,       \* gen_rhythm: iter_counter
    result,             \* value returned by the last gen_rhythm call
    pr_notes,           \* practice_round: notes
    m,                  \* practice_round: measures generated so far
    non_rests,          \* practice_round: non_rests (list)
    rests,              \* practice_round: rests (set of 0-based indices)
    r,                  \* practice_round: iterations of the rest loop done
    i,                  \* practice_round: positions rendered so far
    notes_lilypond,     \* practice_round: notes_lilypond, <<letter, length>>
    sixteenths_arg,     \* last argument of sixteenths_to_rests
    rest_vals           \* last value returned by sixteenths_to_rests

vars == <<bpmeasure, measures, note_values, num_rests, pc, err, notes,
          current_sixteenths, iter_counter, result, pr_notes, m, non_rests,
          rests, r, i, notes_lilypond, sixteenths_arg, rest_vals>>

genVars == <<notes, current_sixteenths, iter_counter, result>>
argVars == <<bpmeasure, measures, note_values, num_rests>>
restVars == <<non_rests, rests, r>>
renderVars == <<i, notes_lilypond, sixteenths_arg, rest_vals>>

-----------------------------------------------------------------------------
(* Bounds of the model *)
MaxBeats == 3         \* bpmeasure ranges over 1..MaxBeats
MaxPalette == 2       \* at most this many distinct note values
MaxLen == 4           \* gen_rhythm alone: sixteenths <= MaxLen * (smallest note value)
MaxPositions == 6     \* practice_round: measures * sixteenths <= MaxPositions * (smallest note value)
MaxMeasures == 2      \* measures ranges over 1..MaxMeasures
MaxRests == 2         \* num_rests ranges over 0..MaxRests
MaxSixteenths == 64   \* arguments tried for sixteenths_to_rests alone

(* Program constants *)
iter_max == 500

-----------------------------------------------------------------------------
(* Helpers on sequences *)
RECURSIVE SeqSum(_)
SeqSum(s) == IF s = <<>> THEN 0 ELSE Head(s) + SeqSum(Tail(s))

Front(s) == SubSeq(s, 1, Len(s) - 1)
Last(s) == s[Len(s)]
Range(s) == {s[k] : k \in 1..Len(s)}
IsPrefix(s, t) == Len(s) <= Len(t) /\ SubSeq(t, 1, Len(s)) = s

SetMin(S) == CHOOSE x \in S : \A y \in S : x <= y

\* faulty variant: the chosen index is not removed
ListRemoveNone(s, x) == s

\* list.remove(x): drops the first occurrence of x
ListRemove(s, x) ==
    LET k == CHOOSE j \in 1..Len(s) : s[j] = x /\ \A h \in 1..(j - 1) : s[h] # x
    IN  SubSeq(s, 1, k - 1) \o SubSeq(s, k + 1, Len(s))

\* list(range(n))
ListRange(n) == [k \in 1..n |-> k - 1]

-----------------------------------------------------------------------------
(* validate_args: the accepted note values *)
\* faulty variant: 3 and 5 accepted as well
valid_values_any == {16, 12, 8, 6, 5, 4, 3, 2, 1}
valid_values == {16, 12, 8, 6, 4, 2, 1}

(* sixteenths_to_rests *)
\* faulty variant: the dotted half split into two quarters
rests_table_typo == (12 :> <<4, 4>>) @@ (6 :> <<2, 4>>)
rests_table == (12 :> <<4, 8>>) @@ (6 :> <<2, 4>>)

\* faulty variant: no splitting
sixteenths_to_rests_same(sixteenths) == <<sixteenths>>

sixteenths_to_rests(sixteenths) ==
    IF sixteenths \in DOMAIN rests_table
    THEN rests_table[sixteenths]
    ELSE <<sixteenths>>

(* sixteenths_to_lilypond: the table; a lookup outside it raises KeyError *)
sixteenths_to_vals ==
    (16 :> "1") @@ (12 :> "2.") @@ (8 :> "2") @@ (6 :> "4.") @@
    (4 :> "4") @@ (2 :> "8") @@ (1 :> "16")

LilypondKeyError(sixteenths) == sixteenths \notin DOMAIN sixteenths_to_vals

sixteenths_to_lilypond(sixteenths) == sixteenths_to_vals[sixteenths]

\* validate_args: the check of args.note_values, then main's call of
\* practice_round up to its first call of gen_rhythm
ValidateArgs ==
    /\ pc = "validate"
    /\ IF \A n \in note_values : n \in valid_values
       THEN /\ pc' = "loop"
            /\ err' = err
       ELSE /\ pc' = "error"
            /\ err' = "ValueError"
    /\ UNCHANGED <<argVars, genVars, pr_notes, m, restVars, renderVars>>

-----------------------------------------------------------------------------
(* gen_rhythm *)
sixteenths == bpmeasure * 4

\* entry of gen_rhythm: notes = [0], current_sixteenths = 0, iter_counter = 0
GenEntry ==
    /\ notes' = <<0>>
    /\ current_sixteenths' = 0
    /\ iter_counter' = 0

\* faulty variants: the last element read but left in place; two elements
\* removed
PopRestKeep(s) == s
PopRestTwo(s) == Front(Front(s))

\* the list notes.pop() leaves behind and the value it returns
PopRest(s) == Front(s)
PopValue(s) == Last(s)

\* faulty variant: "while current_sixteenths < sixteenths" as the outer test
OuterTestLess == current_sixteenths < sixteenths

\* "while current_sixteenths != sixteenths"
OuterTest == current_sixteenths # sixteenths

\* faulty variant: ">=" for ">"
CapExceededAtCap(c) == c >= iter_max

\* "if iter_counter > iter_max", on the incremented counter
CapExceeded(c) == c > iter_max

\* "while current_sixteenths < sixteenths"
InnerTest(cur) == cur < sixteenths

\* while-test true, iter_counter exceeds iter_max: raise ValueError
GenRaise ==
    /\ pc = "loop"
    /\ OuterTest
    /\ CapExceeded(iter_counter + 1)
    /\ iter_counter' = iter_counter + 1
    /\ err' = "ValueError"
    /\ pc' = "error"
    /\ UNCHANGED <<argVars, notes, current_sixteenths, result, pr_notes, m,
                   restVars, renderVars>>

\* while-test true, within the cap: current_sixteenths -= notes.pop(),
\* then the inner while-test
GenPop ==
    /\ pc = "loop"
    /\ OuterTest
    /\ ~CapExceeded(iter_counter + 1)
    /\ iter_counter' = iter_counter + 1
    /\ IF notes = <<>>
       THEN /\ err' = "IndexError"
            /\ pc' = "error"
            /\ UNCHANGED <<notes, current_sixteenths>>
       ELSE /\ current_sixteenths' = current_sixteenths - PopValue(notes)
            /\ notes' = PopRest(notes)
            /\ pc' = IF InnerTest(current_sixteenths') THEN "fill" ELSE "loop"
            /\ err' = err
    /\ UNCHANGED <<argVars, result, pr_notes, m, restVars, renderVars>>

\* one pass of the inner loop: note_val = random.choice(note_values)
GenAppend ==
    /\ pc = "fill"
    /\ \E note_val \in note_values :
          /\ notes' = Append(notes, note_val)
          /\ current_sixteenths' = current_sixteenths + note_val
    /\ pc' = IF InnerTest(current_sixteenths') THEN "fill" ELSE "loop"
    /\ UNCHANGED <<argVars, err, iter_counter, result, pr_notes, m,
                   restVars, renderVars>>

\* while-test false: return notes
GenReturn ==
    /\ pc = "loop"
    /\ ~OuterTest
    /\ result' = notes
    /\ pc' = "returned"
    /\ UNCHANGED <<argVars, err, notes, current_sixteenths, iter_counter,
                   pr_notes, m, restVars, renderVars>>

-----------------------------------------------------------------------------
(* practice_round *)

\* notes.extend(gen_rhythm(...)); then the next measure's call, or the set-up
\* of the rest loop
Extend ==
    /\ pc = "returned"
    /\ pr_notes' = pr_notes \o result
    /\ m' = m + 1
    /\ GenEntry
    /\ result' = <<>>
    /\ IF m' < measures
       THEN /\ pc' = "loop"
            /\ UNCHANGED <<non_rests, rests>>
       ELSE /\ pc' = "rests"
            /\ non_rests' = ListRange(Len(pr_notes'))
            /\ rests' = {}
    /\ UNCHANGED <<argVars, err, r, renderVars>>

\* one pass of "for _ in range(args.num_rests)"; random.choice of an empty
\* list raises IndexError
AddRest ==
    /\ pc = "rests"
    /\ r < num_rests
    /\ IF non_rests = <<>>
       THEN /\ err' = "IndexError"
            /\ pc' = "error"
            /\ UNCHANGED <<non_rests, rests, r>>
       ELSE /\ \E rest_index \in Range(non_rests) :
                  /\ rests' = rests \cup {rest_index}
                  /\ non_rests' = ListRemove(non_rests, rest_index)
            /\ r' = r + 1
            /\ UNCHANGED <<err, pc>>
    /\ UNCHANGED <<argVars, genVars, pr_notes, m, renderVars>>

RestsDone ==
    /\ pc = "rests"
    /\ r = num_rests
    /\ pc' = "render"
    /\ UNCHANGED <<argVars, err, genVars, pr_notes, m, restVars, renderVars>>

\* the tokens the loop body appends for a rest and for a note
RestTokens(vals) == [k \in 1..Len(vals) |-> <<"r", sixteenths_to_lilypond(vals[k])>>]
NoteToken(note) == <<"a", sixteenths_to_lilypond(note)>>

\* one pass of "for i, note in enumerate(notes)"
Render ==
    /\ pc = "render"
    /\ i < Len(pr_notes)
    /\ LET note == pr_notes[i + 1]
       IN  IF i \in rests
           THEN /\ sixteenths_arg' = note
                /\ rest_vals' = sixteenths_to_rests(note)
                /\ IF \E k \in 1..Len(rest_vals') : LilypondKeyError(rest_vals'[k])
                   THEN /\ err' = "KeyError"
                        /\ pc' = "error"
                        /\ UNCHANGED <<i, notes_lilypond>>
                   ELSE /\ notes_lilypond' = notes_lilypond \o RestTokens(rest_vals')
                        /\ i' = i + 1
                        /\ UNCHANGED <<err, pc>>
           ELSE /\ UNCHANGED <<sixteenths_arg, rest_vals>>
                /\ IF LilypondKeyError(note)
                   THEN /\ err' = "KeyError"
                        /\ pc' = "error"
                        /\ UNCHANGED <<i, notes_lilypond>>
                   ELSE /\ notes_lilypond' = Append(notes_lilypond, NoteToken(note))
                        /\ i' = i + 1
                        /\ UNCHANGED <<err, pc>>
    /\ UNCHANGED <<argVars, genVars, pr_notes, m, restVars>>

RenderDone ==
    /\ pc = "render"
    /\ i = Len(pr_notes)
    /\ pc' = "done"
    /\ UNCHANGED <<argVars, err, genVars, pr_notes, m, restVars, renderVars>>

\* a direct call of sixteenths_to_rests
CallRests ==
    /\ pc = "call_rests"
    /\ rest_vals' = sixteenths_to_rests(sixteenths_arg)
    /\ pc' = "rests_returned"
    /\ UNCHANGED <<argVars, err, genVars, pr_notes, m, restVars, i,
                   notes_lilypond, sixteenths_arg>>

-----------------------------------------------------------------------------
(* Inputs *)
Palettes(universe) ==
    {p \in SUBSET universe : p # {} /\ Cardinality(p) <= MaxPalette}

\* note values gen_rhythm is tried with: validate_args' values and two more
gen_values == valid_values \cup {3, 5}

Fits(total, palette, len) == total <= len * SetMin(palette)

InitLocals ==
    /\ err = "none"
    /\ notes = <<0>>
    /\ current_sixteenths = 0
    /\ iter_counter = 0
    /\ result = <<>>
    /\ pr_notes = <<>>
    /\ m = 0
    /\ non_rests = <<>>
    /\ rests = {}
    /\ r = 0
    /\ i = 0
    /\ notes_lilypond = <<>>
    /\ rest_vals = <<>>

\* one call gen_rhythm(beats, note_values)
Init ==
    /\ bpmeasure \in 1..MaxBeats
    /\ note_values \in Palettes(gen_values)
    /\ Fits(bpmeasure * 4, note_values, MaxLen)
    /\ measures = 1
    /\ num_rests = 0
    /\ pc = "loop"
    /\ sixteenths_arg = 0
    /\ InitLocals

Next == GenRaise \/ GenPop \/ GenAppend \/ GenReturn

Spec == Init /\ [][Next]_vars

FairSpec == Spec /\ WF_vars(Next)

\* practice_round(args) after validate_args(args), from the first call of
\* gen_rhythm on
InitRound ==
    /\ bpmeasure \in 1..MaxBeats
    /\ note_values \in Palettes(gen_values)
    /\ measures \in 1..MaxMeasures
    /\ Fits(measures * bpmeasure * 4, note_values, MaxPositions)
    /\ num_rests \in 0..MaxRests
    /\ pc = "validate"
    /\ sixteenths_arg = 0
    /\ InitLocals

NextRound ==
    \/ ValidateArgs
    \/ GenRaise \/ GenPop \/ GenAppend \/ GenReturn
    \/ Extend \/ AddRest \/ RestsDone \/ Render \/ RenderDone

SpecRound == InitRound /\ [][NextRound]_vars

\* sixteenths_to_rests(sixteenths) alone
InitRests ==
    /\ bpmeasure = 1
    /\ note_values = {4}
    /\ measures = 1
    /\ num_rests = 0
    /\ pc = "call_rests"
    /\ sixteenths_arg \in 1..MaxSixteenths
    /\ InitLocals

NextRests == CallRests

SpecRests == InitRests /\ [][NextRests]_vars

-----------------------------------------------------------------------------
(* Properties *)

\* target is a non-negative integer combination of the palette's values
Reachable(target, palette) ==
    LET R[n \in 0..target] == n = 0 \/ \E v \in palette : v <= n /\ R[n - v]
    IN  R[target]

\* C1: when sixteenths is a non-negative integer combination of note_values,
\* no execution of gen_rhythm ends in the ValueError "cannot create rhythm".
C1_ReachableNeverRaises ==
    Reachable(sixteenths, note_values) => err # "ValueError"

\* C3: whenever gen_rhythm returns, the returned list sums to sixteenths
\* (beats * 4), every element is one of note_values, and the sentinel 0 is
\* not in it.
C3_ReturnedSumsToTarget ==
    pc = "returned" =>
        /\ SeqSum(result) = sixteenths
        /\ \A k \in 1..Len(result) : result[k] \in note_values /\ result[k] # 0

\* a return after at least one backtracking step, with more than one note
C3_Witness ==
    pc = "returned" /\ iter_counter >= 2 /\ Len(result) >= 2

\* C4: when no combination of note_values sums to sixteenths, gen_rhythm never
\* returns, and every execution ends in the ValueError, raised at the 501st
\* pass of the outer loop.
C4_UnreachableRaises ==
    /\ [](~Reachable(sixteenths, note_values) => pc # "returned")
    /\ (~Reachable(sixteenths, note_values)) ~>
           (pc = "error" /\ err = "ValueError" /\ iter_counter = 501)

C4_Witness ==
    /\ ~Reachable(sixteenths, note_values)
    /\ Cardinality(note_values) = 2
    /\ pc = "error"
    /\ err = "ValueError"

\* the prefix of notes that later appends have built on
Committed == IF pc = "fill" THEN notes ELSE Front(notes)

\* C9: in gen_rhythm notes is never empty at a pop, current_sixteenths always
\* equals the sum of notes, the elements before the last sum to less than
\* sixteenths, and an element followed by another append is never removed.
C9_SingleStepBacktracking ==
    /\ [](/\ err # "IndexError"
          /\ (pc = "loop" /\ OuterTest => notes # <<>>)
          /\ current_sixteenths = SeqSum(notes)
          /\ SeqSum(Front(notes)) < sixteenths)
    /\ [][IsPrefix(Committed, Committed')]_vars

\* a pop that left a committed prefix of two notes behind
C9_Witness ==
    pc = "fill" /\ iter_counter >= 2 /\ Len(notes) >= 2

Terminated == pc \in {"returned", "error"}

\* C10: every gen_rhythm call terminates; it makes at most 500 passes of the
\* outer loop that pop and refill, notes never holds more than sixteenths
\* elements (so a refill appends at most sixteenths times), the ValueError is
\* raised only on the 501st pass with current_sixteenths different from
\* sixteenths, and no other error ends the call.
C10_Terminates ==
    /\ [](/\ iter_counter <= 501
          /\ (pc \in {"loop", "fill", "returned"} => iter_counter <= 500)
          /\ Len(notes) <= sixteenths
          /\ (pc = "fill" => Len(notes) < sixteenths)
          /\ (pc = "error" =>
                 /\ err = "ValueError"
                 /\ iter_counter = 501
                 /\ current_sixteenths # sixteenths))
    /\ <>Terminated

\* a fit found on the 500th pass is returned
C10_Witness ==
    pc = "returned" /\ iter_counter = 500

\* C2: when num_rests exceeds the number of generated positions, the rest loop
\* raises nothing and ends with every position marked Rest.
C2_TooManyRestsAllRest ==
    (m = measures /\ num_rests > Len(pr_notes)) =>
        /\ err # "IndexError"
        /\ (pc \in {"render", "done"} => rests = 0..(Len(pr_notes) - 1))

\* C5: sixteenths_to_rests returns pieces that sum to its argument; for 12 and
\* 6 it returns more than one piece, for any other argument the argument
\* alone; no piece is 12 or 6.
C5_RestsPreserveDuration ==
    pc = "rests_returned" =>
        /\ SeqSum(rest_vals) = sixteenths_arg
        /\ (sixteenths_arg \in {12, 6} => Len(rest_vals) > 1)
        /\ (sixteenths_arg \notin {12, 6} => rest_vals = <<sixteenths_arg>>)
        /\ \A k \in 1..Len(rest_vals) : rest_vals[k] \notin {12, 6}

C5_Witness ==
    pc = "rests_returned" /\ sixteenths_arg = 12 /\ Len(rest_vals) = 2

\* the values practice_round passes to sixteenths_to_lilypond for position k
LookedUp(k) ==
    IF k \in rests THEN Range(sixteenths_to_rests(pr_notes[k + 1]))
    ELSE {pr_notes[k + 1]}

\* C6: after validate_args, for every choice of rest positions every value
\* practice_round passes to sixteenths_to_lilypond is a key of its table, and
\* rendering never raises KeyError.
C6_NoKeyError ==
    /\ err # "KeyError"
    /\ (pc \in {"render", "done"} =>
           \A k \in 0..(Len(pr_notes) - 1) :
               LookedUp(k) \subseteq {16, 12, 8, 6, 4, 2, 1})

\* a rendered exercise with a dotted half as a rest and a dotted quarter as a note
C6_Witness ==
    /\ pc = "done"
    /\ \E k \in rests : pr_notes[k + 1] = 12
    /\ \E k \in 0..(Len(pr_notes) - 1) : k \notin rests /\ pr_notes[k + 1] = 6

\* the rendered tokens that are notes
NoteTokens == {k \in 1..Len(notes_lilypond) : notes_lilypond[k][1] = "a"}

\* C7: in the rest loop rests and non_rests are disjoint and together are
\* 0..len(notes)-1, one index is marked per pass; with num_rests <=
\* len(notes) the loop ends with exactly num_rests positions marked, and all
\* other positions are rendered as notes.
C7_RestSelection ==
    pc \in {"rests", "render", "done"} =>
        /\ Range(non_rests) \cap rests = {}
        /\ Range(non_rests) \cup rests = 0..(Len(pr_notes) - 1)
        /\ Cardinality(rests) = r
        /\ (pc \in {"render", "done"} /\ num_rests <= Len(pr_notes) =>
               Cardinality(rests) = num_rests)
        /\ (pc = "done" /\ num_rests <= Len(pr_notes) =>
               Cardinality(NoteTokens) = Len(pr_notes) - num_rests)

C7_Witness ==
    /\ pc = "done"
    /\ num_rests = 2
    /\ Len(pr_notes) >= 3
    /\ Cardinality(rests) = 2

\* duration in sixteenths of a rendered token
TokenSixteenths(tok) ==
    CHOOSE d \in DOMAIN sixteenths_to_vals : sixteenths_to_vals[d] = tok[2]

TokenDurations == [k \in 1..Len(notes_lilypond) |-> TokenSixteenths(notes_lilypond[k])]

HasPrefixSum(s, total) == \E j \in 0..Len(s) : SeqSum(SubSeq(s, 1, j)) = total

\* C8: no duration crosses a measure boundary: for every measure k generated
\* so far a prefix of practice_round's notes sums to k * bpmeasure * 4, the
\* whole to measures * bpmeasure * 4, and the same holds for the durations
\* of the rendered tokens.
C8_MeasureBoundaries ==
    /\ \A k \in 1..m : HasPrefixSum(pr_notes, k * bpmeasure * 4)
    /\ SeqSum(pr_notes) = m * bpmeasure * 4
    /\ (pc \in {"rests", "render", "done"} => m = measures)
    /\ (pc = "done" =>
           /\ \A k \in 1..measures : HasPrefixSum(TokenDurations, k * bpmeasure * 4)
           /\ SeqSum(TokenDurations) = measures * bpmeasure * 4)

\* two measures rendered, with a split rest in the first
C8_Witness ==
    /\ pc = "done"
    /\ measures = 2
    /\ Len(notes_lilypond) > Len(pr_notes)
    /\ 0 \in rests
    /\ pr_notes[1] = 6

====
